---- MODULE Spec2Model ----
(***************************************************************************)
(* Model of the kittens-inc/webhook server: the signature verifier         *)
(* (CryptoUtils), the request pipeline (WebhookServer.handleRequest and    *)
(* handleGitHubWebhook), the startup sequence (main), the configuration    *)
(* manager and the event handlers.                                         *)
(*                                                                         *)
(* Text is modelled as sequences of character codes (0..255), so that the  *)
(* hex decoding of the signature header is computed the way hexToBuffer    *)
(* and parseInt compute it.  A request body is a sequence of JSON lexemes. *)
(***************************************************************************)
EXTENDS Integers, Sequences, FiniteSets, TLC

(***************************************************************************)
(* Bounds                                                                  *)
(***************************************************************************)
\* length in bytes of the stand-in digest (SHA-256 yields 32)
MacLen == 3
\* number of deliveries one run of the server accepts
MaxDeliveries == 2

(***************************************************************************)
(* Characters                                                              *)
(***************************************************************************)
Pow2(b) == 2 ^ b

\* c with bit b inverted
FlipBit(c, b) == IF (c \div Pow2(b)) % 2 = 1 THEN c - Pow2(b) ELSE c + Pow2(b)

IsDigit(c) == c \in 48..57
IsLowerHex(c) == c \in 97..102
IsUpperHex(c) == c \in 65..70
IsHexDigit(c) == IsDigit(c) \/ IsLowerHex(c) \/ IsUpperHex(c)

\* value of a hexadecimal digit, as parseInt reads it (either case)
HexVal(c) == IF IsDigit(c) THEN c - 48
             ELSE IF IsLowerHex(c) THEN c - 87
             ELSE c - 55

\* the code of the lowercase hexadecimal digit of v \in 0..15
HexChar(v) == IF v < 10 THEN 48 + v ELSE 87 + v

\* ECMAScript WhiteSpace and LineTerminator code points below 256
IsWhiteSpace(c) == c \in {9, 10, 11, 12, 13, 32, 160}

IsSign(c) == c \in {43, 45}

\* "sha256="
Sha256Prefix == <<115, 104, 97, 50, 53, 54, 61>>

(***************************************************************************)
(* String helpers                                                          *)
(***************************************************************************)
\* first position at which pat occurs in s, 0 when it does not
IndexOf(s, pat) ==
  LET hits == {i \in 1..(Len(s) - Len(pat) + 1) :
                 SubSeq(s, i, i + Len(pat) - 1) = pat}
  IN IF hits = {} THEN 0 ELSE CHOOSE i \in hits : \A j \in hits : i <= j

\* String.prototype.replace(pat, "") with a string pattern: the first
\* occurrence only, wherever it is
ReplaceFirst(s, pat) ==
  LET i == IndexOf(s, pat)
  IN IF i = 0 THEN s
     ELSE SubSeq(s, 1, i - 1) \o SubSeq(s, i + Len(pat), Len(s))

(***************************************************************************)
(* parseInt(text, 16) followed by the store into a Uint8Array element      *)
(***************************************************************************)
NaN == -1000

\* parseInt(s, 16) for a slice s of at most two characters
ParseInt16(s) ==
  LET RECURSIVE Trim(_)
      Trim(t) == IF t # <<>> /\ IsWhiteSpace(Head(t)) THEN Trim(Tail(t)) ELSE t
      t1 == Trim(s)
      neg == t1 # <<>> /\ Head(t1) = 45
      t2 == IF t1 # <<>> /\ IsSign(Head(t1)) THEN Tail(t1) ELSE t1
      t3 == IF Len(t2) >= 2 /\ t2[1] = 48 /\ t2[2] \in {120, 88}
            THEN SubSeq(t2, 3, Len(t2)) ELSE t2
      RECURSIVE Digits(_, _)
      Digits(t, acc) == IF t # <<>> /\ IsHexDigit(Head(t))
                        THEN Digits(Tail(t), acc * 16 + HexVal(Head(t)))
                        ELSE acc
  IN IF t3 = <<>> \/ ~IsHexDigit(Head(t3)) THEN NaN
     ELSE IF neg THEN 0 - Digits(t3, 0) ELSE Digits(t3, 0)

\* ToUint8 of the number stored into bytes[k]: NaN becomes 0, the rest wraps
ToUint8(n) == IF n = NaN THEN 0 ELSE n % 256

\* hexToBuffer reading hex.slice(i, i + 1): one digit for each byte
hexToBufferOneDigit(hex) ==
  [k \in 1..(Len(hex) \div 2) |->
     ToUint8(ParseInt16(SubSeq(hex, 2 * k - 1, 2 * k - 1)))]

\* CryptoUtils.hexToBuffer: new Uint8Array(hex.length / 2) has
\* floor(hex.length / 2) elements; the store of an odd tail goes to a
\* fractional index and is dropped
hexToBuffer(hex) ==
  [k \in 1..(Len(hex) \div 2) |->
     ToUint8(ParseInt16(SubSeq(hex, 2 * k - 1, 2 * k)))]

\* lowercase hexadecimal text of a byte sequence
ToHex(bytes) ==
  [i \in 1..(2 * Len(bytes)) |->
     LET b == bytes[(i + 1) \div 2]
     IN IF i % 2 = 1 THEN HexChar(b \div 16) ELSE HexChar(b % 16)]

(***************************************************************************)
(* Request bodies: sequences of JSON lexemes                               *)
(***************************************************************************)
Lexemes == <<"{", "}", "[", "]", ":", ",", "null", "1",
             "'ref'", "'commits'", "'repository'", "'sender'",
             "'action'", "'completed'", "'queued'",
             "'workflow_run'", "'workflow_job'", "'x'">>

StringLexemes == {"'ref'", "'commits'", "'repository'", "'sender'",
                  "'action'", "'completed'", "'queued'",
                  "'workflow_run'", "'workflow_job'", "'x'"}

LexCode(t) == CHOOSE i \in 1..Len(Lexemes) : Lexemes[i] = t

\* new TextEncoder().encode(text) for a body
EncodeBody(body) == [i \in 1..Len(body) |-> LexCode(body[i])]

\* {"ref":"x","commits":[],"repository":{},"sender":{}}
BodyPush == <<"{", "'ref'", ":", "'x'", ",", "'commits'", ":", "[", "]", ",",
              "'repository'", ":", "{", "}", ",", "'sender'", ":", "{", "}", "}">>
\* {"action":"completed","workflow_run":{},"workflow_job":{},"repository":{},"sender":{}}
BodyCompleted == <<"{", "'action'", ":", "'completed'", ",",
                   "'workflow_run'", ":", "{", "}", ",",
                   "'workflow_job'", ":", "{", "}", ",",
                   "'repository'", ":", "{", "}", ",", "'sender'", ":", "{", "}", "}">>
\* {"action":"queued","workflow_run":{},"workflow_job":{}}
BodyQueued == <<"{", "'action'", ":", "'queued'", ",",
                "'workflow_run'", ":", "{", "}", ",",
                "'workflow_job'", ":", "{", "}", "}">>
\* {}
BodyEmptyObject == <<"{", "}">>
\* null
BodyNull == <<"null">>
\* {"ref":        (cut short)
BodyTruncated == <<"{", "'ref'", ":">>
\* [1,]
BodyTrailingComma == <<"[", "1", ",", "]">>
\* the empty body
BodyEmpty == <<>>

Bodies == {BodyPush, BodyCompleted, BodyQueued, BodyEmptyObject, BodyNull,
           BodyTruncated, BodyTrailingComma, BodyEmpty}

(***************************************************************************)
(* HMAC                                                                    *)
(***************************************************************************)
RECURSIVE Absorb(_, _)
Absorb(bytes, h) ==
  IF bytes = <<>> THEN h
  ELSE Absorb(Tail(bytes), (h * 31 + Head(bytes) + 1) % 65521)

\* stand-in for HMAC-SHA256(key, data): a keyed digest of MacLen bytes
Hmac(key, data) ==
  LET k == Absorb(key, 7)
      m == Absorb(data, k)
  IN [i \in 1..MacLen |->
       (Absorb(<<i, k % 256, i>>, (m * (2 * i + 1)) % 65521) \div 5) % 256]

\* crypto.subtle.importKey("raw", key, HMAC/SHA-256): a zero-length key is
\* rejected with a DataError
ImportKeyFails(key) == Len(key) = 0

\* new TextEncoder().encode(secret): the secret is kept as its bytes
EncodeSecret(secret) == secret

\* crypto.subtle.verify("HMAC", key, signature, data)
SubtleVerify(key, signatureBuffer, data) == signatureBuffer = Hmac(key, data)

\* the try block of CryptoUtils.verifyGitHubSignature: "true", "false", or
\* "error" when a step throws
TryVerify(signature, payload, secret) ==
  LET signatureBuffer == hexToBuffer(ReplaceFirst(signature, Sha256Prefix))
  IN IF ImportKeyFails(EncodeSecret(secret)) THEN "error"
     ELSE IF SubtleVerify(EncodeSecret(secret), signatureBuffer, EncodeBody(payload))
          THEN "true" ELSE "false"

\* CryptoUtils.verifyGitHubSignature: the catch turns every error into false
verifyGitHubSignature(signature, payload, secret) ==
  LET r == TryVerify(signature, payload, secret)
  IN [value |-> (r = "true"), threw |-> FALSE]

\* the header GitHub sends: "sha256=" and the lowercase hex of the digest
SignatureHeader(payload, secret) ==
  Sha256Prefix \o ToHex(Hmac(EncodeSecret(secret), EncodeBody(payload)))

(***************************************************************************)
(* JSON.parse over lexemes                                                 *)
(***************************************************************************)
ScalarLexemes == StringLexemes \cup {"null", "1"}

RECURSIVE ParseValue(_, _), ParseElements(_, _), ParseMembers(_, _)

\* the position after the value that starts at p, 0 on a syntax error
ParseValue(b, p) ==
  IF p > Len(b) THEN 0
  ELSE IF b[p] \in ScalarLexemes THEN p + 1
  ELSE IF b[p] = "[" THEN
    IF p + 1 <= Len(b) /\ b[p + 1] = "]" THEN p + 2 ELSE ParseElements(b, p + 1)
  ELSE IF b[p] = "{" THEN
    IF p + 1 <= Len(b) /\ b[p + 1] = "}" THEN p + 2 ELSE ParseMembers(b, p + 1)
  ELSE 0

ParseElements(b, p) ==
  LET q == ParseValue(b, p)
  IN IF q = 0 \/ q > Len(b) THEN 0
     ELSE IF b[q] = "]" THEN q + 1
     ELSE IF b[q] = "," THEN ParseElements(b, q + 1)
     ELSE 0

ParseMembers(b, p) ==
  IF p + 1 > Len(b) \/ b[p] \notin StringLexemes \/ b[p + 1] # ":" THEN 0
  ELSE LET q == ParseValue(b, p + 2)
       IN IF q = 0 \/ q > Len(b) THEN 0
          ELSE IF b[q] = "}" THEN q + 1
          ELSE IF b[q] = "," THEN ParseMembers(b, q + 1)
          ELSE 0

\* JSON.parse(body) throws a SyntaxError unless the body is one JSON value
IsValidJSON(body) == ParseValue(body, 1) = Len(body) + 1

KindAt(b, p) ==
  IF b[p] = "{" THEN "object"
  ELSE IF b[p] = "[" THEN "array"
  ELSE IF b[p] = "null" THEN "null"
  ELSE IF b[p] = "1" THEN "number"
  ELSE "string"

\* the positions of the member names of the object that starts at p - 1
RECURSIVE MemberPositions(_, _)
MemberPositions(b, p) ==
  IF b[p] = "}" THEN {}
  ELSE LET q == ParseValue(b, p + 2)
       IN {p} \cup (IF b[q] = "," THEN MemberPositions(b, q + 1) ELSE {})

\* the value JSON.parse returns for a valid body: its kind, the kind of
\* each top-level member (the last of equal names wins) and the text of
\* each top-level string member
JSONParse(body) ==
  LET ps == IF body[1] = "{" THEN MemberPositions(body, 2) ELSE {}
      names == {body[p] : p \in ps}
      last(n) == CHOOSE p \in ps : body[p] = n /\ \A q \in ps : body[q] = n => q <= p
  IN [kind |-> KindAt(body, 1),
      members |-> [n \in names |-> KindAt(body, last(n) + 2)],
      text |-> [n \in {m \in names : KindAt(body, last(m) + 2) = "string"} |->
                  body[last(n) + 2]]]

NoPayload == [kind |-> "undefined", members |-> <<>>, text |-> <<>>]

(***************************************************************************)
(* Configuration (ConfigManager)                                           *)
(***************************************************************************)
\* "" and "k"
Secrets == {<<>>, <<107>>}

\* the events section after validateConfig: every flag defaults to true
DefaultEventFlags ==
  [push |-> TRUE, issues |-> TRUE, workflow_run |-> TRUE, workflow_job |-> TRUE]

\* the defaults, and each flag switched off by the configuration file
EventFlagChoices ==
  {DefaultEventFlags,
   [DefaultEventFlags EXCEPT !.push = FALSE],
   [DefaultEventFlags EXCEPT !.issues = FALSE],
   [DefaultEventFlags EXCEPT !.workflow_run = FALSE],
   [DefaultEventFlags EXCEPT !.workflow_job = FALSE]}

\* ConfigManager.config before load()
NoConfig ==
  [loaded |-> FALSE, debug |-> FALSE, secret |-> <<>>, events |-> DefaultEventFlags]

\* github.secret in the configuration file: not set, or set to a string
NoFileSecret == [set |-> FALSE, value |-> <<>>]
FileSecrets == {NoFileSecret} \cup {[set |-> TRUE, value |-> s] : s \in Secrets}

\* validateConfig: the file's values over the defaults; the default secret
\* is the empty string
validateConfig(file) ==
  [loaded |-> TRUE, debug |-> file.debug,
   secret |-> IF file.secret.set THEN file.secret.value ELSE <<>>,
   events |-> file.events]

ConfigFiles ==
  [debug : BOOLEAN, secret : FileSecrets, events : EventFlagChoices]

\* ConfigManager.get(section, key): throws before load(), else the value
ConfigGet(cfg, section, key) ==
  IF ~cfg.loaded THEN [threw |-> TRUE, value |-> FALSE]
  ELSE [threw |-> FALSE,
        value |-> IF section = "app" THEN cfg.debug
                  ELSE IF section = "github" THEN cfg.secret
                  ELSE cfg.events[key]]

(***************************************************************************)
(* Event handlers                                                          *)
(***************************************************************************)
\* PushEvent subscribed to the issues event type
PushEventOnIssues == [name |-> "PushEvent", cls |-> "PushEvent", events |-> <<"issues">>]

PushEvent == [name |-> "PushEvent", cls |-> "PushEvent", events |-> <<"push">>]
IssuesEvent == [name |-> "IssuesEvent", cls |-> "IssuesEvent", events |-> <<"issues">>]
WorkflowRunEvent ==
  [name |-> "WorkflowRunEvent", cls |-> "WorkflowRunEvent", events |-> <<"workflow_run">>]
WorkflowJobEvent ==
  [name |-> "WorkflowJobEvent", cls |-> "WorkflowJobEvent", events |-> <<"workflow_job">>]

\* the list main registers
MainEvents == <<PushEvent, IssuesEvent, WorkflowRunEvent, WorkflowJobEvent>>

\* a registration of two handlers that share an event type: H1 is a push
\* handler, H2 subscribes to push and issues
H1 == [name |-> "H1", cls |-> "PushEvent", events |-> <<"push">>]
H2 == [name |-> "H2", cls |-> "Handler", events |-> <<"push", "issues">>]
SharedEvents == <<H1, H2>>

EventLists == {MainEvents, SharedEvents}

Returned(n) == [threw |-> FALSE, sent |-> n]
Threw(n) == [threw |-> TRUE, sent |-> n]

\* payload.<name> is neither undefined nor null
HasMember(payload, name) ==
  name \in DOMAIN payload.members /\ payload.members[name] # "null"

MemberKind(payload, name) ==
  IF name \in DOMAIN payload.members THEN payload.members[name] ELSE "undefined"

\* Webhook.send resolves or rejects
SendOutcomes == {Returned(1), Threw(1)}

\* PushEvent.execute reading the payload before it checks the flag
PushExecutePayloadFirst(payload, cfg) ==
  IF payload.kind = "null" THEN {Threw(0)}
  ELSE IF MemberKind(payload, "'ref'") # "string" THEN {Threw(0)}
  ELSE IF ~cfg.events.push THEN {Returned(0)}
  ELSE IF MemberKind(payload, "'commits'") # "array" THEN {Threw(0)}
  ELSE IF ~HasMember(payload, "'repository'") THEN {Threw(0)}
  ELSE SendOutcomes

\* PushEvent.execute sending the summary and then the commit details
PushExecuteSendsTwice(payload, cfg) ==
  IF ~cfg.events.push THEN {Returned(0)}
  ELSE IF payload.kind = "null" THEN {Threw(0)}
  ELSE IF MemberKind(payload, "'ref'") # "string" THEN {Threw(0)}
  ELSE IF MemberKind(payload, "'commits'") # "array" THEN {Threw(0)}
  ELSE IF ~HasMember(payload, "'repository'") THEN {Threw(0)}
  ELSE {Threw(1), Threw(2), Returned(2)}

\* PushEvent.execute: the possible outcomes
PushExecute(payload, cfg) ==
  IF ~cfg.events.push THEN {Returned(0)}
  ELSE IF payload.kind = "null" THEN {Threw(0)}
  ELSE IF MemberKind(payload, "'ref'") # "string" THEN {Threw(0)}
  ELSE IF MemberKind(payload, "'commits'") # "array" THEN {Threw(0)}
  ELSE IF ~HasMember(payload, "'repository'") THEN {Threw(0)}
  ELSE SendOutcomes

\* the workflow handlers without the test of the action
WorkflowExecuteAnyAction(payload, enabled, member) ==
  IF ~enabled THEN {Returned(0)}
  ELSE IF payload.kind = "null" THEN {Threw(0)}
  ELSE IF ~HasMember(payload, member) THEN {Threw(0)}
  ELSE IF ~HasMember(payload, "'repository'") THEN {Threw(0)}
  ELSE SendOutcomes

\* WorkflowRunEvent.execute and WorkflowJobEvent.execute, which differ in
\* the flag and in the member they read
WorkflowExecute(payload, enabled, member) ==
  IF ~enabled THEN {Returned(0)}
  ELSE IF payload.kind = "null" THEN {Threw(0)}
  ELSE IF ~("'action'" \in DOMAIN payload.text /\ payload.text["'action'"] = "'completed'")
       THEN {Returned(0)}
  ELSE IF ~HasMember(payload, member) THEN {Threw(0)}
  ELSE IF ~HasMember(payload, "'repository'") THEN {Threw(0)}
  ELSE SendOutcomes

WorkflowRunExecute(payload, cfg) ==
  WorkflowExecute(payload, cfg.events.workflow_run, "'workflow_run'")

WorkflowJobExecute(payload, cfg) ==
  WorkflowExecute(payload, cfg.events.workflow_job, "'workflow_job'")

\* IssuesEvent.execute: a no-op when disabled, otherwise it fails or sends
IssuesExecute(payload, cfg) ==
  IF ~cfg.events.issues THEN {Returned(0)}
  ELSE {Threw(0)} \cup SendOutcomes

\* execute of any other handler: it returns or fails
HandlerExecute(payload, cfg) == {Returned(0), Threw(0)} \cup SendOutcomes

Execute(h, payload, cfg) ==
  IF h.cls = "PushEvent" THEN PushExecute(payload, cfg)
  ELSE IF h.cls = "IssuesEvent" THEN IssuesExecute(payload, cfg)
  ELSE IF h.cls = "WorkflowRunEvent" THEN WorkflowRunExecute(payload, cfg)
  ELSE IF h.cls = "WorkflowJobEvent" THEN WorkflowJobExecute(payload, cfg)
  ELSE HandlerExecute(payload, cfg)

(***************************************************************************)
(* Event manager                                                           *)
(***************************************************************************)
\* the index before register
EmptyRegistry == [e \in {} |-> <<>>]

\* append handler h to the list of event type e
Subscribe(reg, h, e) ==
  IF e \in DOMAIN reg THEN [reg EXCEPT ![e] = Append(@, h)]
  ELSE [x \in DOMAIN reg \cup {e} |-> IF x = e THEN <<h>> ELSE reg[x]]

RECURSIVE SubscribeAll(_, _, _)
SubscribeAll(reg, h, es) ==
  IF es = <<>> THEN reg
  ELSE SubscribeAll(Subscribe(reg, h, Head(es)), h, Tail(es))

\* eventManager.register(handlers): for each handler, for each of its event
\* types, append the handler to that type's list
RECURSIVE Register(_, _)
Register(reg, handlers) ==
  IF handlers = <<>> THEN reg
  ELSE Register(SubscribeAll(reg, Head(handlers), Head(handlers).events),
                Tail(handlers))

\* the handlers emit runs for an event type: none for an unknown type
Lookup(reg, e) == IF e \in DOMAIN reg THEN reg[e] ELSE <<>>

(***************************************************************************)
(* Requests                                                                *)
(***************************************************************************)
\* what Headers.get returns for a header the request does not carry
Absent == "<absent>"

ContentTypes ==
  {Absent, "application/json", "text/plain", "application/json; charset=utf-8"}

EventTypeHeaders ==
  {Absent, "", "push", "issues", "workflow_run", "workflow_job", "ping"}

\* the secret the sender signs with, and a secret the server does not have
SenderSecret == <<107>>
OtherSecret == <<115, 51>>

\* a hexadecimal letter in upper case
UpperCase(c) == IF IsLowerHex(c) THEN c - 32 ELSE c

\* the valid header with its digest written in upper case
UpperHeader(body) ==
  LET h == SignatureHeader(body, SenderSecret)
  IN [i \in 1..Len(h) |-> IF i <= Len(Sha256Prefix) THEN h[i] ELSE UpperCase(h[i])]

NoSignature == [present |-> FALSE, text |-> <<>>]

\* a header that is no signature at all: "no"
GarbledHeader == <<110, 111>>

\* X-Hub-Signature-256 of a delivery with this body: none, the sender's,
\* one made with another secret, the sender's in upper case, and a
\* malformed one
SignatureHeaders(body) ==
  {NoSignature,
   [present |-> TRUE, text |-> SignatureHeader(body, SenderSecret)],
   [present |-> TRUE, text |-> SignatureHeader(body, OtherSecret)],
   [present |-> TRUE, text |-> UpperHeader(body)],
   [present |-> TRUE, text |-> GarbledHeader]}

\* POST /github deliveries; readFails: req.text() rejects
Deliveries ==
  UNION {{[method |-> "POST", path |-> "/github", contentType |-> ct,
           eventType |-> et, signature |-> sg, body |-> b, readFails |-> FALSE] :
            ct \in ContentTypes, et \in EventTypeHeaders,
            sg \in SignatureHeaders(b)} : b \in Bodies}

FailedReads ==
  {[method |-> "POST", path |-> "/github", contentType |-> ct, eventType |-> et,
    signature |-> sg, body |-> <<>>, readFails |-> TRUE] :
     ct \in ContentTypes, et \in EventTypeHeaders, sg \in SignatureHeaders(<<>>)}

\* requests for the other routes
OtherRequests ==
  {[method |-> mp[1], path |-> mp[2], contentType |-> ct, eventType |-> "push",
    signature |-> NoSignature, body |-> BodyPush, readFails |-> FALSE] :
     mp \in {<<"GET", "/health">>, <<"POST", "/health">>, <<"GET", "/github">>,
             <<"GET", "/other">>, <<"POST", "/other">>,
             <<"GET", "/health/">>, <<"POST", "/github/">>},
     ct \in {Absent, "application/json"}}

Requests == Deliveries \cup FailedReads \cup OtherRequests

Reqs == {"r1", "r2"}

\* the requests that one run serves one after the other
SeqReqs == {"r1"}

NoRequest ==
  [method |-> "", path |-> "", contentType |-> Absent, eventType |-> Absent,
   signature |-> NoSignature, body |-> <<>>, readFails |-> FALSE]

\* stages: the pipeline stages the request has passed; running: the
\* positions of the handlers whose execute has been called and not settled;
\* responses: how many Response objects have been returned for the request
IdleSlot ==
  [pc |-> "idle", req |-> NoRequest, status |-> 0, text |-> "", verified |-> "unset",
   payload |-> NoPayload, next |-> 1, calls |-> <<>>, debug |-> "none",
   stages |-> <<>>, running |-> {}, responses |-> 0]

\* a POST /github delivery whose body is read
Delivery(ct, et, sg, b) ==
  [method |-> "POST", path |-> "/github", contentType |-> ct, eventType |-> et,
   signature |-> sg, body |-> b, readFails |-> FALSE]

\* the requests that arrive while others are in flight: a signed push, an
\* unsigned workflow_run, a wrongly signed truncated body, a body whose
\* read fails, a wrong content type and a health check
ConcRequests ==
  {Delivery("application/json", "push",
            [present |-> TRUE, text |-> SignatureHeader(BodyPush, SenderSecret)],
            BodyPush),
   Delivery("application/json", "workflow_run", NoSignature, BodyCompleted),
   Delivery("application/json", "push",
            [present |-> TRUE, text |-> SignatureHeader(BodyTruncated, OtherSecret)],
            BodyTruncated),
   [Delivery("application/json", "push", NoSignature, <<>>) EXCEPT !.readFails = TRUE],
   Delivery("text/plain", "push", NoSignature, BodyPush),
   [Delivery(Absent, "push", NoSignature, BodyPush)
      EXCEPT !.method = "GET", !.path = "/health"]}

\* the value of traffic that stands for ConcRequests
ConcTraffic == [NoRequest EXCEPT !.path = "*"]

\* the requests that arrive: any, those of ConcRequests, or the one that
\* is sent again and again
Sent(t) ==
  IF t = NoRequest THEN Requests
  ELSE IF t = ConcTraffic THEN ConcRequests
  ELSE {t}

\* the request passes a stage of the pipeline
Reach(slot, stage) == [slot EXCEPT !.stages = Append(@, stage)]

\* the names of the handlers in either registration
HandlerNames ==
  {MainEvents[i].name : i \in 1..Len(MainEvents)}
    \cup {SharedEvents[i].name : i \in 1..Len(SharedEvents)}

\* the counts, not kept and kept
NoTally == [kept |-> FALSE, execs |-> [n \in HandlerNames |-> 0], accepted |-> 0]
ZeroTally == [NoTally EXCEPT !.kept = TRUE]

CountExecute(t, name) == IF t.kept THEN [t EXCEPT !.execs[name] = @ + 1] ELSE t
CountAccepted(t) == IF t.kept THEN [t EXCEPT !.accepted = @ + 1] ELSE t

(***************************************************************************)
(* State                                                                   *)
(***************************************************************************)
VARIABLES
  mainPc,      \* where main is: start, loaded, registered, serving, exited
  config,      \* ConfigManager.config
  events,      \* the handler list that is registered
  registry,    \* the event manager's index
  secret,      \* WebhookServer.secret
  reqs,        \* per request: position in handleGitHubWebhook and locals
  deliveries,  \* requests received so far
  vIn,         \* arguments of a direct call of verifyGitHubSignature
  vOut,        \* its result
  traffic,     \* the one request clients send and resend, or NoRequest: any
  tally        \* counts of execute calls and of 202 responses, when kept

vars ==
  <<mainPc, config, events, registry, secret, reqs, deliveries, vIn, vOut,
    traffic, tally>>

serverVars ==
  <<mainPc, config, events, registry, secret, reqs, deliveries, traffic, tally>>

NoCall == [signature |-> <<>>, payload |-> <<>>, secret |-> <<>>]
Pending == [done |-> FALSE, value |-> FALSE, threw |-> FALSE]

Init ==
  /\ mainPc = "start"
  /\ config = NoConfig
  /\ events \in EventLists
  /\ registry = EmptyRegistry
  /\ secret = <<>>
  /\ reqs = [r \in Reqs |-> IdleSlot]
  /\ deliveries = 0
  /\ vIn = NoCall
  /\ vOut = Pending
  /\ traffic = NoRequest
  /\ tally = NoTally

(***************************************************************************)
(* main                                                                    *)
(***************************************************************************)
\* Config.load(configFile): reads, merges with the defaults, stores
LoadConfig ==
  /\ mainPc = "start"
  /\ \E file \in ConfigFiles : config' = validateConfig(file)
  /\ mainPc' = "loaded"
  /\ UNCHANGED <<events, registry, secret, reqs, deliveries, vIn, vOut, traffic, tally>>

\* Config.load throws (no file, bad TOML): main logs and exits
LoadFails ==
  /\ mainPc = "start"
  /\ mainPc' = "exited"
  /\ UNCHANGED <<config, events, registry, secret, reqs, deliveries, vIn, vOut, traffic, tally>>

\* main registering the list a second time
RegisterHandlersTwice ==
  /\ mainPc = "loaded"
  /\ registry' = Register(Register(registry, events), events)
  /\ mainPc' = "registered"
  /\ UNCHANGED <<config, events, secret, reqs, deliveries, vIn, vOut, traffic, tally>>

\* eventManager.register(events)
RegisterHandlers ==
  /\ mainPc = "loaded"
  /\ registry' = Register(registry, events)
  /\ mainPc' = "registered"
  /\ UNCHANGED <<config, events, secret, reqs, deliveries, vIn, vOut, traffic, tally>>

\* the server started before the handlers are registered
StartServerUnregistered ==
  /\ mainPc = "loaded"
  /\ secret' = config.secret
  /\ mainPc' = "serving"
  /\ UNCHANGED <<config, events, registry, reqs, deliveries, vIn, vOut, traffic, tally>>

\* new WebhookServer(secret, port) and server.start()
StartServer ==
  /\ mainPc = "registered"
  /\ secret' = config.secret
  /\ mainPc' = "serving"
  /\ UNCHANGED <<config, events, registry, reqs, deliveries, vIn, vOut, traffic, tally>>

(***************************************************************************)
(* WebhookServer.handleRequest and handleGitHubWebhook                     *)
(***************************************************************************)
\* return new Response(text, { status: code })
Respond(slot, code, text) ==
  [slot EXCEPT !.pc = "done", !.status = code, !.text = text, !.responses = @ + 1]

\* JSON.parse without its own try: the SyntaxError reaches the outer catch
ParseAndDispatchNoCatch(slot) ==
  IF ~IsValidJSON(slot.req.body) THEN {Respond(slot, 500, "Internal Server Error")}
  ELSE LET parsed == [Reach(slot, "PayloadParsed") EXCEPT
                        !.payload = JSONParse(slot.req.body)]
           debug == ConfigGet(config, "app", "debug")
       IN IF debug.threw THEN {Respond(parsed, 500, "Internal Server Error")}
          ELSE IF debug.value THEN {[parsed EXCEPT !.pc = "debugWrite"]}
          ELSE {[parsed EXCEPT !.pc = "emit"]}

\* the debug file written from the raw body, before JSON.parse
ParseAndDispatchDebugFirst(slot) ==
  LET debug == ConfigGet(config, "app", "debug")
  IN IF debug.threw THEN {Respond(slot, 500, "Internal Server Error")}
     ELSE IF debug.value THEN {[slot EXCEPT !.pc = "debugWrite"]}
     ELSE IF ~IsValidJSON(slot.req.body) THEN {Respond(slot, 400, "Invalid JSON")}
     ELSE {[Reach(slot, "PayloadParsed") EXCEPT
              !.payload = JSONParse(slot.req.body), !.pc = "emit"]}

\* handleGitHubWebhook from JSON.parse to the call of emit
ParseAndDispatch(slot) ==
  IF ~IsValidJSON(slot.req.body) THEN {Respond(slot, 400, "Invalid JSON")}
  ELSE LET parsed == [Reach(slot, "PayloadParsed") EXCEPT
                        !.payload = JSONParse(slot.req.body)]
           debug == ConfigGet(config, "app", "debug")
       IN IF debug.threw THEN {Respond(parsed, 500, "Internal Server Error")}
          ELSE IF debug.value THEN {[parsed EXCEPT !.pc = "debugWrite"]}
          ELSE {[parsed EXCEPT !.pc = "emit"]}

\* the signature step without the return for a missing header
CheckSignatureNoReturn(slot) ==
  IF secret # <<>> THEN
    IF ~slot.req.signature.present \/ slot.req.signature.text = <<>>
    THEN ParseAndDispatch(Reach(slot, "SignatureVerified"))
    ELSE {[slot EXCEPT !.pc = "verify"]}
  ELSE ParseAndDispatch(Reach(slot, "SignatureVerified"))

\* the signature step verifying every header that is present, secret or not
CheckSignatureAnyHeader(slot) ==
  IF slot.req.signature.present /\ slot.req.signature.text # <<>>
  THEN {[slot EXCEPT !.pc = "verify"]}
  ELSE IF secret # <<>> THEN {Respond(slot, 401, "Missing signature")}
  ELSE ParseAndDispatch(Reach(slot, "SignatureVerified"))

\* the body parsed before the signature is looked at
CheckSignatureAfterParse(slot) ==
  IF ~IsValidJSON(slot.req.body) THEN {Respond(slot, 400, "Invalid JSON")}
  ELSE IF secret # <<>> THEN
    IF ~slot.req.signature.present \/ slot.req.signature.text = <<>>
    THEN {Respond(slot, 401, "Missing signature")}
    ELSE {[slot EXCEPT !.pc = "verify"]}
  ELSE ParseAndDispatch(Reach(slot, "SignatureVerified"))

\* the signature step after the body is read, up to its await
CheckSignature(slot) ==
  IF secret # <<>> THEN
    IF ~slot.req.signature.present \/ slot.req.signature.text = <<>>
    THEN {Respond(slot, 401, "Missing signature")}
    ELSE {[slot EXCEPT !.pc = "verify"]}
  ELSE ParseAndDispatch(Reach(slot, "SignatureVerified"))

\* the content-type check as a prefix test
CheckHeadersPrefix(slot) ==
  IF slot.req.contentType \notin {"application/json", "application/json; charset=utf-8"}
  THEN Respond(slot, 400, "Invalid content type")
  ELSE IF slot.req.eventType = Absent \/ slot.req.eventType = ""
  THEN Respond(Reach(slot, "ContentTypeChecked"), 400, "Missing event type")
  ELSE [Reach(Reach(slot, "ContentTypeChecked"), "EventTypeIdentified")
          EXCEPT !.pc = "readBody"]

\* the event-type check as a test for null only
CheckHeadersNullOnly(slot) ==
  IF slot.req.contentType # "application/json"
  THEN Respond(slot, 400, "Invalid content type")
  ELSE IF slot.req.eventType = Absent
  THEN Respond(Reach(slot, "ContentTypeChecked"), 400, "Missing event type")
  ELSE [Reach(Reach(slot, "ContentTypeChecked"), "EventTypeIdentified")
          EXCEPT !.pc = "readBody"]

\* the content-type and event-type checks, up to await req.text()
CheckHeaders(slot) ==
  IF slot.req.contentType # "application/json"
  THEN Respond(slot, 400, "Invalid content type")
  ELSE IF slot.req.eventType = Absent \/ slot.req.eventType = ""
  THEN Respond(Reach(slot, "ContentTypeChecked"), 400, "Missing event type")
  ELSE [Reach(Reach(slot, "ContentTypeChecked"), "EventTypeIdentified")
          EXCEPT !.pc = "readBody"]

\* the health check answered for GET only
RouteHealthGetOnly(slot) ==
  IF slot.req.path = "/health" /\ slot.req.method = "GET" THEN Respond(slot, 200, "OK")
  ELSE IF slot.req.path = "/github" /\ slot.req.method = "POST"
  THEN CheckHeaders(Reach(slot, "Received"))
  ELSE Respond(slot, 404, "Not Found")

\* handleRequest: routing
Route(slot) ==
  IF slot.req.path = "/health" THEN Respond(slot, 200, "OK")
  ELSE IF slot.req.path = "/github" /\ slot.req.method = "POST"
  THEN CheckHeaders(Reach(slot, "Received"))
  ELSE Respond(slot, 404, "Not Found")

\* a request that repeats the one before it acknowledged without dispatch
HandleRequestOnce(r) ==
  /\ mainPc = "serving"
  /\ reqs[r].pc = "idle"
  /\ deliveries < MaxDeliveries
  /\ \E q \in Sent(traffic) :
       reqs' = [reqs EXCEPT ![r] =
                  IF traffic # NoRequest /\ deliveries > 0
                  THEN Respond([IdleSlot EXCEPT !.req = q], 202, "OK")
                  ELSE Route([IdleSlot EXCEPT !.req = q])]
  /\ deliveries' = deliveries + 1
  /\ UNCHANGED <<mainPc, config, events, registry, secret, vIn, vOut, traffic, tally>>

\* a request arrives: handleRequest runs to its first await or response
HandleRequest(r) ==
  /\ mainPc = "serving"
  /\ reqs[r].pc = "idle"
  /\ deliveries < MaxDeliveries
  /\ \E q \in Sent(traffic) :
       reqs' = [reqs EXCEPT ![r] = Route([IdleSlot EXCEPT !.req = q])]
  /\ deliveries' = deliveries + 1
  /\ UNCHANGED <<mainPc, config, events, registry, secret, vIn, vOut, traffic, tally>>

\* await req.text() outside the try: the rejection leaves handleGitHubWebhook
ReadBodyNoCatch(r) ==
  /\ reqs[r].pc = "readBody"
  /\ IF reqs[r].req.readFails
     THEN reqs' = [reqs EXCEPT ![r].pc = "threw"]
     ELSE \E s \in CheckSignature(reqs[r]) : reqs' = [reqs EXCEPT ![r] = s]
  /\ UNCHANGED <<mainPc, config, events, registry, secret, deliveries, vIn, vOut,
                 traffic, tally>>

\* await req.text() settles
ReadBody(r) ==
  /\ reqs[r].pc = "readBody"
  /\ IF reqs[r].req.readFails
     THEN reqs' = [reqs EXCEPT ![r] = Respond(@, 500, "Internal Server Error")]
     ELSE \E s \in CheckSignature(reqs[r]) : reqs' = [reqs EXCEPT ![r] = s]
  /\ UNCHANGED <<mainPc, config, events, registry, secret, deliveries, vIn, vOut,
                 traffic, tally>>

\* the body kept in a field of the server that every request overwrites:
\* the verifier gets the body of another request in flight
VerifySignatureSharedBody(r) ==
  /\ reqs[r].pc = "verify"
  /\ LET others == {o \in Reqs \ {r} : reqs[o].pc \notin {"idle", "readBody"}}
         body == IF others = {} THEN reqs[r].req.body
                 ELSE reqs[CHOOSE o \in others : TRUE].req.body
         v == verifyGitHubSignature(reqs[r].req.signature.text, body, secret)
         slot == [reqs[r] EXCEPT !.verified = IF v.value THEN "true" ELSE "false"]
     IN IF v.threw
        THEN reqs' = [reqs EXCEPT ![r] = Respond(slot, 500, "Internal Server Error")]
        ELSE IF ~v.value
        THEN reqs' = [reqs EXCEPT ![r] = Respond(slot, 401, "Invalid signature")]
        ELSE \E s \in ParseAndDispatch(Reach(slot, "SignatureVerified")) :
               reqs' = [reqs EXCEPT ![r] = s]
  /\ UNCHANGED <<mainPc, config, events, registry, secret, deliveries, vIn, vOut,
                 traffic, tally>>

\* await CryptoUtils.verifyGitHubSignature settles
VerifySignature(r) ==
  /\ reqs[r].pc = "verify"
  /\ LET v == verifyGitHubSignature(reqs[r].req.signature.text, reqs[r].req.body, secret)
         slot == [reqs[r] EXCEPT !.verified = IF v.value THEN "true" ELSE "false"]
     IN IF v.threw
        THEN reqs' = [reqs EXCEPT ![r] = Respond(slot, 500, "Internal Server Error")]
        ELSE IF ~v.value
        THEN reqs' = [reqs EXCEPT ![r] = Respond(slot, 401, "Invalid signature")]
        ELSE \E s \in ParseAndDispatch(Reach(slot, "SignatureVerified")) :
               reqs' = [reqs EXCEPT ![r] = s]
  /\ UNCHANGED <<mainPc, config, events, registry, secret, deliveries, vIn, vOut,
                 traffic, tally>>

\* Bun.write without its own try: a failed write reaches the outer catch
WriteDebugNoCatch(r) ==
  /\ reqs[r].pc = "debugWrite"
  /\ \E ok \in BOOLEAN :
       reqs' = [reqs EXCEPT ![r] =
                  IF ok THEN [@ EXCEPT !.pc = "emit", !.debug = "written"]
                  ELSE Respond([@ EXCEPT !.debug = "failed"], 500,
                               "Internal Server Error")]
  /\ UNCHANGED <<mainPc, config, events, registry, secret, deliveries, vIn, vOut,
                 traffic, tally>>

\* await Bun.write of the debug file settles; a failure is ignored
WriteDebug(r) ==
  /\ reqs[r].pc = "debugWrite"
  /\ \E ok \in BOOLEAN :
       reqs' = [reqs EXCEPT ![r] = [@ EXCEPT !.pc = "emit",
                                     !.debug = IF ok THEN "written" ELSE "failed"]]
  /\ UNCHANGED <<mainPc, config, events, registry, secret, deliveries, vIn, vOut,
                 traffic, tally>>

\* eventManager.emit: the next handler's execute is called
EmitStart(r) ==
  /\ reqs[r].pc = "emit"
  /\ reqs[r].running = {}
  /\ reqs[r].next <= Len(Lookup(registry, reqs[r].req.eventType))
  /\ reqs' = [reqs EXCEPT ![r].running = {reqs[r].next}]
  /\ tally' = CountExecute(tally, Lookup(registry, reqs[r].req.eventType)[reqs[r].next].name)
  /\ UNCHANGED <<mainPc, config, events, registry, secret, deliveries, vIn, vOut, traffic>>

\* eventManager.emit: the next handler's execute settles; a failure is
\* caught and logged
EmitNext(r) ==
  /\ reqs[r].pc = "emit"
  /\ reqs[r].next \in reqs[r].running
  /\ LET h == Lookup(registry, reqs[r].req.eventType)[reqs[r].next]
     IN \E o \in Execute(h, reqs[r].payload, config) :
          reqs' = [reqs EXCEPT ![r] =
                     [@ EXCEPT !.next = @ + 1,
                               !.running = @ \ {reqs[r].next},
                               !.calls = Append(@, [name |-> h.name,
                                                    cls |-> h.cls,
                                                    payload |-> reqs[r].payload,
                                                    threw |-> o.threw,
                                                    sent |-> o.sent])]]
  /\ UNCHANGED <<mainPc, config, events, registry, secret, deliveries, vIn, vOut,
                 traffic, tally>>

\* an event type without a subscriber answered as a bad request
EmitDoneUnknownRejected(r) ==
  /\ reqs[r].pc = "emit"
  /\ reqs[r].running = {}
  /\ reqs[r].next > Len(Lookup(registry, reqs[r].req.eventType))
  /\ reqs' = [reqs EXCEPT ![r] =
                IF Lookup(registry, reqs[r].req.eventType) = <<>>
                THEN Respond(@, 400, "Unknown event type")
                ELSE Respond(Reach(Reach(@, "Dispatched"), "Completed"), 202, "OK")]
  /\ tally' = CountAccepted(tally)
  /\ UNCHANGED <<mainPc, config, events, registry, secret, deliveries, vIn, vOut, traffic>>

\* emit that does not return once a handler has failed
EmitDoneUnlessFailed(r) ==
  /\ reqs[r].pc = "emit"
  /\ reqs[r].running = {}
  /\ reqs[r].next > Len(Lookup(registry, reqs[r].req.eventType))
  /\ \A i \in 1..Len(reqs[r].calls) : ~reqs[r].calls[i].threw
  /\ reqs' = [reqs EXCEPT ![r] =
                Respond(Reach(Reach(@, "Dispatched"), "Completed"), 202, "OK")]
  /\ tally' = CountAccepted(tally)
  /\ UNCHANGED <<mainPc, config, events, registry, secret, deliveries, vIn, vOut, traffic>>

\* emit called without await: the response does not wait for the handlers
EmitDoneNoAwait(r) ==
  /\ reqs[r].pc = "emit"
  /\ reqs' = [reqs EXCEPT ![r] =
                Respond(Reach(Reach(@, "Dispatched"), "Completed"), 202, "OK")]
  /\ tally' = CountAccepted(tally)
  /\ UNCHANGED <<mainPc, config, events, registry, secret, deliveries, vIn, vOut, traffic>>

\* a handler failure passed on to the outer catch
EmitDoneRethrows(r) ==
  /\ reqs[r].pc = "emit"
  /\ reqs[r].running = {}
  /\ reqs[r].next > Len(Lookup(registry, reqs[r].req.eventType))
  /\ reqs' = [reqs EXCEPT ![r] =
                IF \E i \in 1..Len(reqs[r].calls) : reqs[r].calls[i].threw
                THEN Respond(Reach(@, "Dispatched"), 500, "Internal Server Error")
                ELSE Respond(Reach(Reach(@, "Dispatched"), "Completed"), 202, "OK")]
  /\ tally' = CountAccepted(tally)
  /\ UNCHANGED <<mainPc, config, events, registry, secret, deliveries, vIn, vOut, traffic>>

\* await eventManager.emit returns: the 202 response
EmitDone(r) ==
  /\ reqs[r].pc = "emit"
  /\ reqs[r].running = {}
  /\ reqs[r].next > Len(Lookup(registry, reqs[r].req.eventType))
  /\ reqs' = [reqs EXCEPT ![r] =
                Respond(Reach(Reach(@, "Dispatched"), "Completed"), 202, "OK")]
  /\ tally' = CountAccepted(tally)
  /\ UNCHANGED <<mainPc, config, events, registry, secret, deliveries, vIn, vOut, traffic>>

\* the response is sent; the request and its locals are discarded
Finish(r) ==
  /\ reqs[r].pc = "done"
  /\ reqs' = [reqs EXCEPT ![r] = IdleSlot]
  /\ UNCHANGED <<mainPc, config, events, registry, secret, deliveries, vIn, vOut,
                 traffic, tally>>

Next ==
  \/ LoadConfig
  \/ LoadFails
  \/ RegisterHandlers
  \/ StartServer
  \/ \E r \in SeqReqs : HandleRequest(r)
  \/ \E r \in SeqReqs : ReadBody(r)
  \/ \E r \in SeqReqs : VerifySignature(r)
  \/ \E r \in SeqReqs : WriteDebug(r)
  \/ \E r \in SeqReqs : EmitStart(r)
  \/ \E r \in SeqReqs : EmitNext(r)
  \/ \E r \in SeqReqs : EmitDone(r)
  \/ \E r \in SeqReqs : Finish(r)

Spec == Init /\ [][Next]_vars

\* every execute settles and the continuations of emit and of
\* handleGitHubWebhook are run
EmitFairness ==
  \A r \in SeqReqs :
    WF_vars(EmitStart(r)) /\ WF_vars(EmitNext(r)) /\ WF_vars(EmitDone(r))

SpecLive == Init /\ [][Next]_vars /\ EmitFairness

(***************************************************************************)
(* One delivery sent again and again                                       *)
(***************************************************************************)
\* the deliveries that pass the header checks and carry valid JSON
RepeatDeliveries ==
  {q \in Deliveries : /\ q.contentType = "application/json"
                     /\ q.eventType \notin {Absent, ""}
                     /\ IsValidJSON(q.body)}

\* a sender that delivers one request again and again; the execute calls
\* and the 202 responses are counted
RepeatInit ==
  /\ mainPc = "start"
  /\ config = NoConfig
  /\ events \in EventLists
  /\ registry = EmptyRegistry
  /\ secret = <<>>
  /\ reqs = [r \in Reqs |-> IdleSlot]
  /\ deliveries = 0
  /\ vIn = NoCall
  /\ vOut = Pending
  /\ traffic \in RepeatDeliveries
  /\ tally = ZeroTally

SpecRepeat == RepeatInit /\ [][Next]_vars

(***************************************************************************)
(* Requests in flight at the same time                                     *)
(***************************************************************************)
\* main, then requests that arrive while others wait at an await
ConcInit ==
  /\ mainPc = "start"
  /\ config = NoConfig
  /\ events \in EventLists
  /\ registry = EmptyRegistry
  /\ secret = <<>>
  /\ reqs = [r \in Reqs |-> IdleSlot]
  /\ deliveries = 0
  /\ vIn = NoCall
  /\ vOut = Pending
  /\ traffic = ConcTraffic
  /\ tally = NoTally

\* the steps of every request in flight interleave at the awaits
ConcNext ==
  \/ LoadConfig
  \/ LoadFails
  \/ RegisterHandlers
  \/ StartServer
  \/ \E r \in Reqs : HandleRequest(r)
  \/ \E r \in Reqs : ReadBody(r)
  \/ \E r \in Reqs : VerifySignature(r)
  \/ \E r \in Reqs : WriteDebug(r)
  \/ \E r \in Reqs : EmitStart(r)
  \/ \E r \in Reqs : EmitNext(r)
  \/ \E r \in Reqs : EmitDone(r)
  \/ \E r \in Reqs : Finish(r)

SpecConc == ConcInit /\ [][ConcNext]_vars

(***************************************************************************)
(* Direct calls of CryptoUtils.verifyGitHubSignature                       *)
(***************************************************************************)
VerifySecrets == {<<>>, SenderSecret, OtherSecret}

\* the positions of the digest's hex digits in a header
HexPositions(header) == (Len(Sha256Prefix) + 1)..Len(header)

\* header with one bit of one hex digit inverted
Tampered(header) ==
  {[header EXCEPT ![p] = FlipBit(@, b)] : p \in HexPositions(header), b \in 0..7}

\* "g", " " and "+" are not hex digits; "0" and "a" are
Malformed(header) ==
  {[header EXCEPT ![p] = c] : p \in HexPositions(header), c \in {103, 32, 43}}
  \cup {header \o <<c>> : c \in {48, 97, 103}}
  \cup {SubSeq(header, 1, Len(header) - 1), Sha256Prefix \o <<122, 122>>,
        <<120, 121, 122>>}

\* the text after the prefix is not an even number of hex digits
IsMalformed(signature) ==
  LET hex == ReplaceFirst(signature, Sha256Prefix)
  IN Len(hex) % 2 = 1 \/ \E i \in 1..Len(hex) : ~IsHexDigit(hex[i])

VerifyCalls ==
  UNION {{[signature |-> sg, payload |-> b, secret |-> k] :
            sg \in {SignatureHeader(b, k)} \cup Tampered(SignatureHeader(b, k))
                     \cup Malformed(SignatureHeader(b, k))
                     \cup {SignatureHeader(b, OtherSecret), <<>>}} :
          b \in Bodies, k \in VerifySecrets}

VerifyInit ==
  /\ mainPc = "start"
  /\ config = NoConfig
  /\ events = MainEvents
  /\ registry = EmptyRegistry
  /\ secret = <<>>
  /\ reqs = [r \in Reqs |-> IdleSlot]
  /\ deliveries = 0
  /\ vIn \in VerifyCalls
  /\ vOut = Pending
  /\ traffic = NoRequest
  /\ tally = NoTally

\* the call settles
VerifyCall ==
  /\ ~vOut.done
  /\ LET v == verifyGitHubSignature(vIn.signature, vIn.payload, vIn.secret)
     IN vOut' = [done |-> TRUE, value |-> v.value, threw |-> v.threw]
  /\ UNCHANGED <<serverVars, vIn>>

VerifyNext == VerifyCall

SpecVerify == VerifyInit /\ [][VerifyNext]_vars

\* C3 as stated: the header made from (body, secret) verifies, for every
\* body and secret
RoundTripAnySecret ==
  (vOut.done /\ vIn.signature = SignatureHeader(vIn.payload, vIn.secret))
    => vOut.value

\* C3: the header "sha256=" + hex(HMAC(body, secret)) verifies against the
\* same body and secret, for every body and every non-empty secret
RoundTrip ==
  (vOut.done /\ vIn.secret # <<>>
     /\ vIn.signature = SignatureHeader(vIn.payload, vIn.secret))
    => (vOut.value /\ ~vOut.threw)

RoundTripWitness ==
  /\ vOut.done /\ vIn.secret # <<>> /\ vIn.payload = BodyPush
  /\ vIn.signature = SignatureHeader(vIn.payload, vIn.secret) /\ vOut.value

\* C4: a header that differs from the valid one by one bit of one hex
\* digit does not verify
TamperRejected ==
  (vOut.done /\ vIn.signature \in Tampered(SignatureHeader(vIn.payload, vIn.secret)))
    => ~vOut.value

\* C5: a malformed header (a non-hex character, an odd number of digits)
\* yields false and no exception
MalformedFailsClosed ==
  (vOut.done /\ IsMalformed(vIn.signature)) => (~vOut.value /\ ~vOut.threw)

(***************************************************************************)
(* Properties of the request pipeline                                      *)
(***************************************************************************)
\* the request is routed to handleGitHubWebhook
IsDelivery(q) == q.path = "/github" /\ q.method = "POST"

\* the request passes the content-type and event-type checks
HeadersPass(q) ==
  q.contentType = "application/json" /\ q.eventType \notin {Absent, ""}

\* the signature header is absent, or the verifier returns false for it
SignatureFails(q) ==
  \/ ~q.signature.present
  \/ ~verifyGitHubSignature(q.signature.text, q.body, secret).value

\* C1 as stated: with a secret configured, a delivery without a verified
\* signature is answered 401, whatever else it carries
UnsignedAlways401 ==
  \A r \in Reqs :
    (reqs[r].pc = "done" /\ IsDelivery(reqs[r].req) /\ ~reqs[r].req.readFails
       /\ secret # <<>> /\ SignatureFails(reqs[r].req))
      => reqs[r].status = 401

\* C1: with a non-empty secret, a delivery whose signature header is absent
\* or fails verification never reaches a handler, and it is answered 401
\* when it passes the content-type and event-type checks and its body is
\* read (400 when it fails one of those checks, 500 when the read fails); a
\* handler invocation implies an empty secret or a signature that verified
\* true
UnsignedRejected ==
  \A r \in Reqs :
    /\ (reqs[r].pc # "idle" /\ IsDelivery(reqs[r].req) /\ ~reqs[r].req.readFails
          /\ secret # <<>> /\ SignatureFails(reqs[r].req))
         => /\ reqs[r].calls = <<>>
            /\ reqs[r].pc \notin {"emit", "debugWrite"}
            /\ (reqs[r].pc = "done" /\ HeadersPass(reqs[r].req))
                 => reqs[r].status = 401
    /\ (reqs[r].pc = "done" /\ IsDelivery(reqs[r].req) /\ secret # <<>>
          /\ ~HeadersPass(reqs[r].req))
         => reqs[r].status = 400 /\ reqs[r].calls = <<>>
    /\ (reqs[r].pc = "done" /\ IsDelivery(reqs[r].req) /\ secret # <<>>
          /\ HeadersPass(reqs[r].req) /\ reqs[r].req.readFails)
         => reqs[r].status = 500 /\ reqs[r].calls = <<>>
    /\ reqs[r].calls # <<>>
         => (secret = <<>> \/ (reqs[r].verified = "true" /\ ~SignatureFails(reqs[r].req)))

UnsignedRejectedWitness ==
  \E r \in Reqs :
    /\ reqs[r].pc = "done" /\ secret # <<>> /\ HeadersPass(reqs[r].req)
    /\ reqs[r].req.body = BodyPush /\ reqs[r].req.eventType = "push"
    /\ reqs[r].req.signature.present /\ SignatureFails(reqs[r].req)
    /\ reqs[r].status = 401 /\ reqs[r].calls = <<>>

\* the calls of the handler named n in a call log
CallsOf(calls, n) == SelectSeq(calls, LAMBDA c : c.name = n)

\* C2: when H1 and H2 subscribe to the event type of a delivery and H1's
\* execute fails, H2's execute is still invoked exactly once and the
\* response is 202
FailureIsolated ==
  \A r \in Reqs :
    (reqs[r].pc = "done" /\ events = SharedEvents /\ reqs[r].calls # <<>>
       /\ reqs[r].calls[1].name = "H1" /\ reqs[r].calls[1].threw)
      => /\ Len(CallsOf(reqs[r].calls, "H2")) = 1
         /\ Len(CallsOf(reqs[r].calls, "H1")) = 1
         /\ reqs[r].status = 202

FailureIsolatedWitness ==
  \E r \in Reqs :
    /\ reqs[r].pc = "done" /\ events = SharedEvents /\ Len(reqs[r].calls) = 2
    /\ reqs[r].calls[1].name = "H1" /\ reqs[r].calls[1].threw
    /\ reqs[r].calls[2].name = "H2" /\ reqs[r].status = 202

\* C6: a delivery whose Content-Type is not exactly application/json is
\* answered 400 at once, whatever its other headers, its body and the
\* secret are; no handler runs and nothing else is done for it
WrongContentType400 ==
  \A r \in Reqs :
    (reqs[r].pc # "idle" /\ IsDelivery(reqs[r].req)
       /\ reqs[r].req.contentType # "application/json")
      => /\ reqs[r].pc = "done" /\ reqs[r].status = 400
         /\ reqs[r].calls = <<>> /\ reqs[r].debug = "none"

WrongContentType400Witness ==
  \E r \in Reqs :
    /\ reqs[r].pc = "done" /\ IsDelivery(reqs[r].req)
    /\ reqs[r].req.contentType = "application/json; charset=utf-8"
    /\ reqs[r].req.eventType = "push" /\ reqs[r].req.body = BodyPush
    /\ secret # <<>> /\ ~SignatureFails(reqs[r].req)
    /\ reqs[r].status = 400

\* C7: with the handlers main registers and no secret, a POST with content
\* type application/json, event type push, no signature header and a valid
\* JSON body is answered 202, and the push handler alone is invoked, once,
\* with the parsed payload
PushAccepted ==
  \A r \in Reqs :
    (reqs[r].pc = "done" /\ events = MainEvents /\ secret = <<>>
       /\ IsDelivery(reqs[r].req) /\ reqs[r].req.contentType = "application/json"
       /\ reqs[r].req.eventType = "push" /\ ~reqs[r].req.signature.present
       /\ ~reqs[r].req.readFails /\ IsValidJSON(reqs[r].req.body))
      => /\ reqs[r].status = 202
         /\ Len(reqs[r].calls) = 1
         /\ reqs[r].calls[1].name = "PushEvent"
         /\ reqs[r].calls[1].payload = JSONParse(reqs[r].req.body)

PushAcceptedWitness ==
  \E r \in Reqs :
    /\ reqs[r].pc = "done" /\ events = MainEvents /\ secret = <<>>
    /\ IsDelivery(reqs[r].req) /\ reqs[r].req.eventType = "push"
    /\ ~reqs[r].req.signature.present /\ reqs[r].req.body = BodyPush
    /\ reqs[r].status = 202 /\ Len(reqs[r].calls) = 1
    /\ reqs[r].calls[1].name = "PushEvent" /\ reqs[r].calls[1].sent = 1

\* C8: a delivery that passes the content-type check and has no or an
\* empty X-GitHub-Event header is answered 400 at once and no handler runs
MissingEventType400 ==
  \A r \in Reqs :
    (reqs[r].pc # "idle" /\ IsDelivery(reqs[r].req)
       /\ reqs[r].req.contentType = "application/json"
       /\ reqs[r].req.eventType \in {Absent, ""})
      => /\ reqs[r].pc = "done" /\ reqs[r].status = 400
         /\ reqs[r].calls = <<>> /\ reqs[r].debug = "none"

MissingEventType400Witness ==
  \E r \in Reqs :
    /\ reqs[r].pc = "done" /\ IsDelivery(reqs[r].req)
    /\ reqs[r].req.contentType = "application/json"
    /\ reqs[r].req.eventType = "" /\ reqs[r].req.body = BodyPush
    /\ secret # <<>> /\ ~SignatureFails(reqs[r].req)
    /\ reqs[r].status = 400

\* the delivery gets past the signature step
SignatureStagePassed(q) == secret = <<>> \/ ~SignatureFails(q)

\* C9: a delivery that passes the content-type, event-type and signature
\* steps with a body that is not valid JSON is answered 400 and no handler
\* runs
InvalidJSON400 ==
  \A r \in Reqs :
    (reqs[r].pc # "idle" /\ IsDelivery(reqs[r].req) /\ HeadersPass(reqs[r].req)
       /\ ~reqs[r].req.readFails /\ SignatureStagePassed(reqs[r].req)
       /\ ~IsValidJSON(reqs[r].req.body))
      => /\ reqs[r].calls = <<>>
         /\ reqs[r].pc \in {"readBody", "verify", "done"}
         /\ reqs[r].pc = "done" => reqs[r].status = 400

InvalidJSON400Witness ==
  \E r \in Reqs :
    /\ reqs[r].pc = "done" /\ IsDelivery(reqs[r].req) /\ HeadersPass(reqs[r].req)
    /\ secret # <<>> /\ reqs[r].verified = "true"
    /\ reqs[r].req.body = BodyTruncated /\ reqs[r].status = 400

\* every event type a handler can subscribe to or a delivery can name
EventTypes == (EventTypeHeaders \ {Absent}) \cup {"unknown"}

Subscribes(h, e) == \E i \in 1..Len(h.events) : h.events[i] = e

\* C10: after register, the list of each event type is the handlers that
\* subscribe to it, in registration order, each once; for H1 (push) and
\* H2 (push, issues): push gives [H1, H2], issues gives [H2], any other
\* type gives the empty list
RegistryOrder ==
  mainPc \in {"registered", "serving"}
    => /\ \A e \in EventTypes :
            Lookup(registry, e) = SelectSeq(events, LAMBDA h : Subscribes(h, e))
       /\ events = SharedEvents
            => /\ Lookup(registry, "push") = <<H1, H2>>
               /\ Lookup(registry, "issues") = <<H2>>
               /\ Lookup(registry, "unknown") = <<>>

RegistryOrderWitness ==
  /\ mainPc = "serving" /\ events = SharedEvents
  /\ Lookup(registry, "push") = <<H1, H2>>
  /\ Lookup(registry, "issues") = <<H2>>

\* the delivery passes every check before dispatch
PassesChecks(q) ==
  /\ IsDelivery(q) /\ HeadersPass(q) /\ ~q.readFails
  /\ SignatureStagePassed(q) /\ IsValidJSON(q.body)

\* C11: a delivery that passes the content-type, event-type, signature and
\* JSON steps and names an event type without a subscribed handler invokes
\* no handler and is answered 202
UnknownEventNoOp ==
  \A r \in Reqs :
    (reqs[r].pc # "idle" /\ PassesChecks(reqs[r].req)
       /\ Lookup(registry, reqs[r].req.eventType) = <<>>)
      => /\ reqs[r].calls = <<>> /\ reqs[r].running = {}
         /\ reqs[r].pc = "done" => (reqs[r].status = 202 /\ reqs[r].text = "OK")

UnknownEventNoOpWitness ==
  \E r \in Reqs :
    /\ reqs[r].pc = "done" /\ PassesChecks(reqs[r].req)
    /\ reqs[r].req.eventType = "ping" /\ events = MainEvents
    /\ secret # <<>> /\ reqs[r].verified = "true"
    /\ reqs[r].status = 202 /\ reqs[r].calls = <<>>

\* how often the handler named n is in a handler list
Occurrences(hs, n) == Len(SelectSeq(hs, LAMBDA h : h.name = n))

\* the names in a call log, and in a handler list
CallNames(calls) == [i \in 1..Len(calls) |-> calls[i].name]
Names(hs) == [i \in 1..Len(hs) |-> hs[i].name]

\* C12: there is no deduplication: when one delivery that passes every
\* check has been sent n times, each handler subscribed to its event type
\* has been invoked n times and 202 has been answered n times; each of the
\* n deliveries is answered 202 after the same invocations
NoDeduplication ==
  (tally.kept /\ traffic # NoRequest /\ mainPc = "serving" /\ PassesChecks(traffic))
    => /\ \A r \in SeqReqs :
            reqs[r].pc = "idle"
              => /\ tally.accepted = deliveries
                 /\ \A n \in HandlerNames :
                      tally.execs[n] =
                        deliveries * Occurrences(Lookup(registry, traffic.eventType), n)
       /\ \A r \in SeqReqs :
            reqs[r].pc = "done"
              => /\ reqs[r].status = 202
                 /\ CallNames(reqs[r].calls)
                      = Names(Lookup(registry, traffic.eventType))
                 /\ \A i \in 1..Len(reqs[r].calls) :
                      reqs[r].calls[i].payload = JSONParse(traffic.body)

NoDeduplicationWitness ==
  /\ tally.kept /\ PassesChecks(traffic) /\ events = SharedEvents
  /\ traffic.eventType = "push" /\ secret # <<>>
  /\ reqs["r1"].pc = "idle" /\ deliveries = 2
  /\ tally.accepted = 2 /\ tally.execs["H1"] = 2 /\ tally.execs["H2"] = 2

\* C13: a delivery that reaches dispatch is eventually answered, once, with
\* 202 after every subscribed handler has been attempted, whatever the
\* handlers' outcomes are
DispatchCompletes ==
  /\ \A r \in SeqReqs :
       (reqs[r].pc = "emit")
         ~> (/\ reqs[r].pc = "done" /\ reqs[r].status = 202
             /\ reqs[r].responses = 1
             /\ Len(reqs[r].calls) = Len(Lookup(registry, reqs[r].req.eventType)))
  /\ [](\A r \in SeqReqs :
          /\ reqs[r].responses <= 1
          /\ (reqs[r].pc = "done" /\ reqs[r].payload # NoPayload)
               => /\ reqs[r].status = 202 /\ reqs[r].responses = 1
                  /\ reqs[r].stages[Len(reqs[r].stages)] = "Completed")

DispatchCompletesWitness ==
  \E r \in SeqReqs :
    /\ reqs[r].pc = "done" /\ reqs[r].status = 202 /\ reqs[r].responses = 1
    /\ Len(reqs[r].calls) = 2
    /\ reqs[r].calls[1].threw /\ ~reqs[r].calls[2].threw
    /\ reqs[r].stages[Len(reqs[r].stages)] = "Completed"

\* C14: an exception inside handleGitHubWebhook (the body read rejects)
\* never leaves it: the delivery is answered 500, once, and no handler
\* runs; every 500 response carries the same fixed text; while the server
\* serves, the debug-flag lookup does not throw
InternalError500 ==
  /\ \A r \in Reqs :
       /\ reqs[r].pc # "threw"
       /\ reqs[r].status = 500
            => /\ reqs[r].pc = "done" /\ reqs[r].text = "Internal Server Error"
               /\ reqs[r].responses = 1 /\ reqs[r].calls = <<>>
       /\ (reqs[r].pc = "done" /\ IsDelivery(reqs[r].req) /\ HeadersPass(reqs[r].req)
             /\ reqs[r].req.readFails)
            => reqs[r].status = 500
  /\ mainPc = "serving" => ~ConfigGet(config, "app", "debug").threw

InternalError500Witness ==
  \E r \in Reqs :
    /\ reqs[r].pc = "done" /\ IsDelivery(reqs[r].req) /\ HeadersPass(reqs[r].req)
    /\ reqs[r].req.readFails /\ secret # <<>> /\ ~reqs[r].req.signature.present
    /\ reqs[r].status = 500 /\ reqs[r].text = "Internal Server Error"

\* C15: whether the debug flag is unset, the payload file is written or
\* the write fails, a delivery that passes every check is answered 202
\* after the handlers subscribed to its event type have been invoked in
\* registration order; a failed write stops nothing
DebugIsolated ==
  \A r \in Reqs :
    /\ reqs[r].debug \in {"none", "written", "failed"}
    /\ reqs[r].debug # "none" => (config.debug /\ reqs[r].pc \in {"emit", "done"})
    /\ \A d \in {"none", "written", "failed"} :
         (reqs[r].pc = "done" /\ PassesChecks(reqs[r].req) /\ reqs[r].debug = d)
           => /\ reqs[r].status = 202
              /\ CallNames(reqs[r].calls)
                   = Names(Lookup(registry, reqs[r].req.eventType))

DebugIsolatedWitness ==
  \E r \in Reqs :
    /\ reqs[r].pc = "done" /\ PassesChecks(reqs[r].req) /\ reqs[r].debug = "failed"
    /\ reqs[r].status = 202 /\ Len(reqs[r].calls) = 2
    /\ reqs[r].calls[1].sent = 1

\* the response to a delivery when no check looks at its signature header
StatusUnsigned(q) ==
  IF q.contentType # "application/json" THEN 400
  ELSE IF q.eventType \in {Absent, ""} THEN 400
  ELSE IF q.readFails THEN 500
  ELSE IF ~IsValidJSON(q.body) THEN 400
  ELSE 202

\* C16: a secret that the configuration file does not set is the empty
\* string; with an empty secret verifyGitHubSignature is never called, and
\* the response and the handler invocations of a delivery are those its
\* other headers and its body determine, whatever its signature header is
NoSecretPassThrough ==
  /\ \A f \in ConfigFiles : ~f.secret.set => validateConfig(f).secret = <<>>
  /\ mainPc = "serving" => secret = config.secret
  /\ secret = <<>>
       => \A r \in Reqs :
            /\ reqs[r].pc # "verify" /\ reqs[r].verified = "unset"
            /\ (reqs[r].pc = "done" /\ IsDelivery(reqs[r].req))
                 => /\ reqs[r].status = StatusUnsigned(reqs[r].req)
                    /\ CallNames(reqs[r].calls)
                         = IF reqs[r].status = 202
                           THEN Names(Lookup(registry, reqs[r].req.eventType))
                           ELSE <<>>

NoSecretPassThroughWitness ==
  \E r \in Reqs :
    /\ reqs[r].pc = "done" /\ secret = <<>> /\ IsDelivery(reqs[r].req)
    /\ reqs[r].req.signature.present
    /\ reqs[r].req.signature.text = SignatureHeader(reqs[r].req.body, OtherSecret)
    /\ reqs[r].status = 202 /\ Len(reqs[r].calls) = 1 /\ reqs[r].verified = "unset"

\* the same with a malformed header
NoSecretGarbledWitness ==
  \E r \in Reqs :
    /\ reqs[r].pc = "done" /\ secret = <<>> /\ IsDelivery(reqs[r].req)
    /\ reqs[r].req.signature.text = GarbledHeader /\ reqs[r].status = 202

\* the flag that enables the handlers of a class
Enabled(cfg, cls) ==
  IF cls = "PushEvent" THEN cfg.events.push
  ELSE IF cls = "WorkflowRunEvent" THEN cfg.events.workflow_run
  ELSE IF cls = "WorkflowJobEvent" THEN cfg.events.workflow_job
  ELSE TRUE

\* the payloads JSON.parse can hand to a handler
Payloads == {JSONParse(b) : b \in {x \in Bodies : IsValidJSON(x)}}

\* C17: when the flag of its event type is false, execute of the push, the
\* workflow_run and the workflow_job handler returns normally, without a
\* call of Webhook.send, for every payload
DisabledNoOp ==
  /\ \A r \in Reqs : \A i \in 1..Len(reqs[r].calls) :
       LET c == reqs[r].calls[i]
       IN (c.cls \in {"PushEvent", "WorkflowRunEvent", "WorkflowJobEvent"}
             /\ ~Enabled(config, c.cls))
            => (~c.threw /\ c.sent = 0)
  /\ \A p \in Payloads :
       /\ ~config.events.push => PushExecute(p, config) = {Returned(0)}
       /\ ~config.events.workflow_run => WorkflowRunExecute(p, config) = {Returned(0)}
       /\ ~config.events.workflow_job => WorkflowJobExecute(p, config) = {Returned(0)}

DisabledNoOpWitness ==
  \E r \in Reqs :
    /\ reqs[r].pc = "done" /\ ~config.events.push /\ Len(reqs[r].calls) = 1
    /\ reqs[r].calls[1].cls = "PushEvent" /\ reqs[r].calls[1].payload.kind = "null"
    /\ ~reqs[r].calls[1].threw /\ reqs[r].calls[1].sent = 0

\* C18: main registers only after the configuration is loaded, the server
\* serves only after the one call of register, a request is handled only
\* by a serving process whose registry is the registration of the handler
\* list, once, and the registry never changes after that call
StartupOrder ==
  /\ [](mainPc \in {"registered", "serving"}
          => (config.loaded /\ registry = Register(EmptyRegistry, events)))
  /\ [](mainPc \in {"start", "loaded"} => registry = EmptyRegistry)
  /\ [](\A r \in Reqs :
          reqs[r].pc # "idle"
            => (mainPc = "serving" /\ registry = Register(EmptyRegistry, events)))
  /\ [][registry' # registry
          => (mainPc = "loaded" /\ mainPc' = "registered"
                /\ registry = EmptyRegistry)]_vars
  /\ [][mainPc' = "serving" => mainPc \in {"registered", "serving"}]_vars

StartupOrderWitness ==
  \E r \in Reqs :
    /\ mainPc = "serving" /\ config.loaded /\ events = MainEvents
    /\ registry = Register(EmptyRegistry, MainEvents)
    /\ reqs[r].pc = "done" /\ reqs[r].req.eventType = "workflow_job"
    /\ Len(reqs[r].calls) = 1 /\ reqs[r].calls[1].name = "WorkflowJobEvent"

\* the stages of spec 4.3 in their order
Pipeline ==
  <<"Received", "ContentTypeChecked", "EventTypeIdentified", "SignatureVerified",
    "PayloadParsed", "Dispatched", "Completed">>

IsPrefix(s, t) == Len(s) <= Len(t) /\ \A i \in 1..Len(s) : s[i] = t[i]

\* the response of the first check a delivery fails, and the number of
\* stages it has reached by then
FirstFailure(q) ==
  IF q.contentType # "application/json" THEN [status |-> 400, reached |-> 1]
  ELSE IF q.eventType \in {Absent, ""} THEN [status |-> 400, reached |-> 2]
  ELSE IF q.readFails THEN [status |-> 500, reached |-> 3]
  ELSE IF secret # <<>> /\ SignatureFails(q) THEN [status |-> 401, reached |-> 3]
  ELSE IF ~IsValidJSON(q.body) THEN [status |-> 400, reached |-> 4]
  ELSE [status |-> 202, reached |-> 7]

\* C19: a delivery passes the stages Received, ContentTypeChecked,
\* EventTypeIdentified, SignatureVerified, PayloadParsed, Dispatched,
\* Completed in this order without skipping one; the first check it fails
\* alone gives the response and ends its processing: a wrong content type
\* with a missing signature gives 400, and with a secret an invalid
\* signature over a body that is not JSON gives 401
StageOrder ==
  /\ [](\A r \in Reqs :
          /\ IsPrefix(reqs[r].stages, Pipeline)
          /\ (reqs[r].pc = "done" /\ IsDelivery(reqs[r].req))
               => /\ reqs[r].status = FirstFailure(reqs[r].req).status
                  /\ Len(reqs[r].stages) = FirstFailure(reqs[r].req).reached
                  /\ reqs[r].responses = 1
          /\ (reqs[r].calls # <<>> \/ reqs[r].debug # "none")
               => FirstFailure(reqs[r].req).status = 202
          /\ (reqs[r].pc = "done" /\ IsDelivery(reqs[r].req)
                /\ reqs[r].req.contentType # "application/json"
                /\ ~reqs[r].req.signature.present)
               => reqs[r].status = 400
          /\ (reqs[r].pc = "done" /\ IsDelivery(reqs[r].req) /\ HeadersPass(reqs[r].req)
                /\ ~reqs[r].req.readFails /\ secret # <<>>
                /\ SignatureFails(reqs[r].req) /\ ~IsValidJSON(reqs[r].req.body))
               => reqs[r].status = 401)
  /\ [][\A r \in Reqs :
          (reqs[r].pc # "idle" /\ reqs'[r].pc # "idle")
            => /\ IsPrefix(reqs[r].stages, reqs'[r].stages)
               /\ Len(reqs'[r].stages) <= Len(reqs[r].stages) + 2
               /\ reqs[r].pc = "done" => reqs'[r] = reqs[r]]_vars

StageOrderWitness ==
  \E r \in Reqs :
    /\ reqs[r].pc = "done" /\ IsDelivery(reqs[r].req) /\ HeadersPass(reqs[r].req)
    /\ secret # <<>> /\ reqs[r].req.signature.present /\ SignatureFails(reqs[r].req)
    /\ reqs[r].req.body = BodyTruncated /\ reqs[r].status = 401
    /\ reqs[r].stages = <<"Received", "ContentTypeChecked", "EventTypeIdentified">>

\* C20: the handlers subscribed to a delivery's event type are invoked one
\* at a time in registration order: at most one execute is in flight, the
\* next one starts only when all before it have settled, and the response
\* is sent only after the last one has settled
SequentialDispatch ==
  /\ [](\A r \in Reqs :
          LET hs == Lookup(registry, reqs[r].req.eventType)
          IN /\ Cardinality(reqs[r].running) <= 1
             /\ reqs[r].running \subseteq {reqs[r].next}
             /\ reqs[r].calls # <<>> \/ reqs[r].running # {}
                  => /\ Len(reqs[r].calls) = reqs[r].next - 1
                     /\ IsPrefix(CallNames(reqs[r].calls), Names(hs))
                     /\ \A k \in reqs[r].running : k <= Len(hs)
             /\ (reqs[r].pc = "done" /\ reqs[r].status = 202)
                  => (reqs[r].running = {} /\ Len(reqs[r].calls) = Len(hs)))
  /\ [][\A r \in Reqs :
          (reqs'[r].running # reqs[r].running /\ reqs'[r].running # {})
            => /\ reqs[r].running = {}
               /\ reqs'[r].running = {Len(reqs[r].calls) + 1}
               /\ reqs'[r].calls = reqs[r].calls]_vars

SequentialDispatchWitness ==
  \E r \in Reqs :
    /\ reqs[r].pc = "emit" /\ events = SharedEvents /\ reqs[r].req.eventType = "push"
    /\ reqs[r].running = {2} /\ Len(reqs[r].calls) = 1
    /\ reqs[r].calls[1].name = "H1" /\ reqs[r].calls[1].threw

\* C21: however the steps of the deliveries in flight interleave at their
\* awaits, each delivery is answered as its own headers, body and the
\* secret determine, after the handlers subscribed to its own event type
\* have been invoked with its own payload; handling a request never
\* changes the secret, the registry or the configuration
RequestsIndependent ==
  /\ [](\A r \in Reqs :
          /\ (reqs[r].pc = "done" /\ IsDelivery(reqs[r].req))
               => /\ reqs[r].status = FirstFailure(reqs[r].req).status
                  /\ reqs[r].responses = 1
                  /\ CallNames(reqs[r].calls)
                       = IF reqs[r].status = 202
                         THEN Names(Lookup(registry, reqs[r].req.eventType))
                         ELSE <<>>
          /\ \A i \in 1..Len(reqs[r].calls) :
               reqs[r].calls[i].payload = JSONParse(reqs[r].req.body)
          /\ reqs[r].verified # "unset"
               => (reqs[r].verified = "true") = ~SignatureFails(reqs[r].req))
  /\ [][mainPc = "serving" => UNCHANGED <<secret, registry, config, events, mainPc>>]_vars

\* a wrongly signed delivery waits for the verifier while a signed push
\* that is in flight with it has had its first handler run and waits for
\* the second
RequestsIndependentWitness ==
  \E r, o \in Reqs :
    /\ r # o /\ secret # <<>> /\ events = SharedEvents
    /\ reqs[r].pc = "emit" /\ reqs[r].verified = "true"
    /\ reqs[r].req.eventType = "push" /\ reqs[r].running = {2}
    /\ CallNames(reqs[r].calls) = <<"H1">>
    /\ reqs[r].calls[1].payload = JSONParse(BodyPush)
    /\ reqs[o].pc = "verify" /\ reqs[o].req.body = BodyTruncated

\* the statuses a response can carry
Statuses == {200, 202, 400, 401, 404, 500}

\* C22: every request gets one response, with a status among 200, 202, 400,
\* 401, 404 and 500; 200 is the answer exactly for the path /health, with
\* any method, no signature check and no handler; the pipeline is entered
\* only for POST /github; every other path or method gets 404 and no
\* handler; 202 comes only after dispatch
ResponseSet ==
  \A r \in Reqs :
    /\ reqs[r].responses = IF reqs[r].pc = "done" THEN 1 ELSE 0
    /\ reqs[r].pc # "done" => reqs[r].status = 0
    /\ reqs[r].pc = "done"
         => /\ reqs[r].status \in Statuses
            /\ (reqs[r].status = 200) = (reqs[r].req.path = "/health")
            /\ (reqs[r].status = 404)
                 = (reqs[r].req.path # "/health" /\ ~IsDelivery(reqs[r].req))
            /\ reqs[r].status \in {200, 404}
                 => /\ reqs[r].calls = <<>> /\ reqs[r].stages = <<>>
                    /\ reqs[r].verified = "unset" /\ reqs[r].debug = "none"
            /\ reqs[r].status = 202
                 => /\ reqs[r].stages = Pipeline
                    /\ Len(reqs[r].calls)
                         = Len(Lookup(registry, reqs[r].req.eventType))
    /\ (reqs[r].stages # <<>> \/ reqs[r].calls # <<>> \/ reqs[r].verified # "unset")
         => IsDelivery(reqs[r].req)

\* POST /health with a secret configured and no signature is answered 200
ResponseSetWitness ==
  \E r \in Reqs :
    /\ reqs[r].pc = "done" /\ reqs[r].req.path = "/health"
    /\ reqs[r].req.method = "POST" /\ secret # <<>>
    /\ reqs[r].status = 200 /\ reqs[r].text = "OK" /\ reqs[r].responses = 1

\* GET /github is answered 404
ResponseSetNotFoundWitness ==
  \E r \in Reqs :
    /\ reqs[r].pc = "done" /\ reqs[r].req.path = "/github"
    /\ reqs[r].req.method = "GET" /\ reqs[r].status = 404

\* the outcomes of execute of the push, workflow_run and workflow_job
\* handlers for a payload
CodeOutcomes(p) ==
  PushExecute(p, config) \cup WorkflowRunExecute(p, config)
    \cup WorkflowJobExecute(p, config)

\* C23: one call of execute of the push, workflow_run or workflow_job
\* handler calls Webhook.send at most once, so a delivery gives at most one
\* notification for each subscribed handler; an enabled push handler that
\* returns normally has called it exactly once
SendAtMostOnce ==
  /\ \A p \in Payloads :
       /\ \A o \in CodeOutcomes(p) : o.sent <= 1
       /\ \A o \in PushExecute(p, config) :
            (config.events.push /\ ~o.threw) => o.sent = 1
  /\ \A r \in Reqs :
       /\ \A i \in 1..Len(reqs[r].calls) :
            LET c == reqs[r].calls[i]
            IN c.cls \in {"PushEvent", "WorkflowRunEvent", "WorkflowJobEvent"}
                 => /\ c.sent <= 1
                    /\ (c.cls = "PushEvent" /\ config.events.push /\ ~c.threw)
                         => c.sent = 1
       /\ events = MainEvents
            => \A n \in HandlerNames \ {"IssuesEvent"} :
                 Len(SelectSeq(reqs[r].calls, LAMBDA c : c.name = n /\ c.sent > 0)) <= 1

SendAtMostOnceWitness ==
  \E r \in Reqs :
    /\ reqs[r].pc = "done" /\ events = MainEvents /\ config.events.push
    /\ Len(reqs[r].calls) = 1 /\ reqs[r].calls[1].cls = "PushEvent"
    /\ ~reqs[r].calls[1].threw /\ reqs[r].calls[1].sent = 1

\* payload.action of an object payload, "undefined" when it has none
ActionOf(p) ==
  IF "'action'" \in DOMAIN p.text THEN p.text["'action'"] ELSE "undefined"

WorkflowClasses == {"WorkflowRunEvent", "WorkflowJobEvent"}

\* C24: the workflow_run and workflow_job handlers call Webhook.send only
\* for a payload whose action is "completed"; for an object payload with
\* any other action execute returns normally without a send, enabled or not
CompletedOnly ==
  /\ \A p \in Payloads :
       (p.kind = "object" /\ ActionOf(p) # "'completed'")
         => /\ WorkflowRunExecute(p, config) = {Returned(0)}
            /\ WorkflowJobExecute(p, config) = {Returned(0)}
  /\ \A p \in Payloads :
       \A o \in WorkflowRunExecute(p, config) \cup WorkflowJobExecute(p, config) :
         o.sent > 0 => (p.kind = "object" /\ ActionOf(p) = "'completed'")
  /\ \A r \in Reqs : \A i \in 1..Len(reqs[r].calls) :
       LET c == reqs[r].calls[i]
       IN c.cls \in WorkflowClasses
            => /\ c.sent > 0 => ActionOf(c.payload) = "'completed'"
               /\ (c.payload.kind = "object" /\ ActionOf(c.payload) # "'completed'")
                    => (~c.threw /\ c.sent = 0)

\* an enabled workflow_run handler called with action "queued" returns
\* without a send
CompletedOnlyWitness ==
  \E r \in Reqs :
    /\ reqs[r].pc = "done" /\ config.events.workflow_run
    /\ reqs[r].req.eventType = "workflow_run" /\ reqs[r].req.body = BodyQueued
    /\ Len(reqs[r].calls) = 1 /\ reqs[r].calls[1].cls = "WorkflowRunEvent"
    /\ ActionOf(reqs[r].calls[1].payload) = "'queued'"
    /\ ~reqs[r].calls[1].threw /\ reqs[r].calls[1].sent = 0

\* and called with action "completed" it sends
CompletedSendsWitness ==
  \E r \in Reqs :
    /\ reqs[r].pc = "done" /\ reqs[r].req.eventType = "workflow_job"
    /\ Len(reqs[r].calls) = 1 /\ reqs[r].calls[1].cls = "WorkflowJobEvent"
    /\ ActionOf(reqs[r].calls[1].payload) = "'completed'"
    /\ reqs[r].calls[1].sent = 1

\* C25: the debug file of a delivery is written only when the debug flag
\* is set and the delivery has passed the content-type, event-type,
\* signature and JSON steps; a delivery answered 400, 401 or 500 has
\* caused no write; the write is attempted before the first handler of the
\* delivery is called
DebugAfterChecks ==
  /\ [](\A r \in Reqs :
          /\ (reqs[r].debug # "none" \/ reqs[r].pc = "debugWrite")
               => /\ config.debug /\ PassesChecks(reqs[r].req)
                  /\ IsPrefix(SubSeq(Pipeline, 1, 5), reqs[r].stages)
                  /\ reqs[r].payload = JSONParse(reqs[r].req.body)
                  /\ secret # <<>> => reqs[r].verified = "true"
          /\ (reqs[r].pc = "done" /\ reqs[r].status \in {400, 401, 404, 500})
               => reqs[r].debug = "none"
          /\ reqs[r].pc = "debugWrite"
               => (reqs[r].calls = <<>> /\ reqs[r].running = {} /\ reqs[r].debug = "none")
          /\ (config.debug /\ (reqs[r].calls # <<>> \/ reqs[r].running # {}))
               => reqs[r].debug \in {"written", "failed"})
  /\ [][\A r \in Reqs :
          reqs'[r].debug \notin {reqs[r].debug, "none"}
            => /\ reqs[r].pc = "debugWrite" /\ reqs'[r].pc = "emit"
               /\ reqs'[r].calls = <<>> /\ reqs'[r].running = {}]_vars

DebugAfterChecksWitness ==
  \E r \in Reqs :
    /\ reqs[r].pc = "done" /\ config.debug /\ reqs[r].debug = "written"
    /\ secret # <<>> /\ reqs[r].verified = "true" /\ reqs[r].status = 202
    /\ Len(reqs[r].calls) = 1

\* with the flag set, a delivery with an invalid signature is answered 401
\* without a write
DebugNoWriteWitness ==
  \E r \in Reqs :
    /\ reqs[r].pc = "done" /\ config.debug /\ reqs[r].status = 401
    /\ reqs[r].debug = "none" /\ IsValidJSON(reqs[r].req.body)

====
